---------------------------- MODULE Spec2Model ----------------------------
(***************************************************************************)
(* A model of apscheduler/job.py: the Job record, its next-run-time        *)
(* computation, its run-time enumeration, its instance admission gate and  *)
(* its versioned pickling state.                                           *)
(*                                                                         *)
(* Instants are natural numbers; one unit is the increment get_run_times  *)
(* advances by.  Python's None is the integer None for the optional        *)
(* numeric fields and the string NoRef for the optional textual reference. *)
(***************************************************************************)
EXTENDS Integers, Sequences, FiniteSets, TLC

VARIABLES
    job,        \* the Job object: a record of its slots (except _lock)
    lock,       \* Job._lock: the thread holding it, or NoThread
    pc,         \* per thread: its position inside add_instance/remove_instance
    outcome,    \* per thread: how its last gate call ended
    history,    \* the gate calls in the order they ran under the lock
    clock,      \* the earliest instant the next scheduler tick may pass as now
    tpc,        \* the scheduler's position inside its tick
    now_,       \* the now of the tick in progress
    run_times,  \* the fire times of this tick that are still to be executed
    last,       \* the last call of a Job method: its inputs, pre-state and result
    snapshot,   \* the outcome of the last __getstate__ call, until it is dropped
    loaded,     \* the object the last __setstate__ call was applied to
    handle,     \* the caller's JobHandle: its slots, by name
    present,    \* whether the scheduler still lists the Job
    hcall,      \* the last call on the JobHandle: its pre-state and outcome
    read,       \* per thread: the value of instances its += or -= has read
    run_time_   \* the candidate of the loop of get_run_times

vars == <<job, lock, pc, outcome, history, clock, tpc, now_, run_times, last,
          snapshot, loaded, handle, present, hcall, read, run_time_>>

---------------------------------------------------------------------------
(* Bounds of the model. *)

\* number of threads calling the admission gate
NumThreads == 2
\* largest max_instances a Job is constructed with
MaxInstancesBound == 2
\* gate calls recorded in history before the callers stop
MaxOps == 5
\* the largest instant a tick passes as now
MaxTime == 3
\* largest bounded max_runs a Job is constructed with
MaxRunsBound == 2

---------------------------------------------------------------------------
(* Python values. *)

None == -1
NoRef == "None"
NoThread == 0

Threads == 1 .. NumThreads
Times == 0 .. MaxTime
\* get_run_times asks the trigger about run_time + increment, at most now + 1
Instants == 0 .. (MaxTime + 1)

\* timedelta(microseconds=1)
increment == 1

---------------------------------------------------------------------------
(* apscheduler.util, as the spec's CallableReference resolver describes    *)
(* it: resolve(text) -> callable or a reference error, derive(callable)    *)
(* -> text or unresolvable.  "job_f" is a module-level function, "lam" a   *)
(* callable with no importable name.                                       *)

NoObj == "<no object>"

ref_to_obj(ref) ==
    IF ref = "mod:job_f" THEN "job_f" ELSE NoObj

\* the reference of obj when it resolves back to obj; NoRef for ValueError
obj_to_ref(obj) ==
    IF obj = "job_f" THEN "mod:job_f" ELSE NoRef

get_callable_name(obj) == obj

\* uuid4().hex
uuid4_hex == "uuid4"

---------------------------------------------------------------------------
(* Triggers.  A trigger is the function get_next_fire_time: it maps an     *)
(* instant t to None or to an instant >= t.                                *)

Triggers ==
    { f \in [Instants -> Instants \cup {None}] :
        \A t \in Instants : f[t] = None \/ f[t] >= t }

get_next_fire_time(trigger, t) == trigger[t]

\* the trigger that fires at every instant
EveryInstant == [t \in Instants |-> t]

---------------------------------------------------------------------------
(* Job.__init__ *)

\* a func argument: a textual reference, a callable, or neither
FuncArgs ==
    { [kind |-> "str", val |-> "mod:job_f"],
      [kind |-> "str", val |-> "mod:missing"],
      [kind |-> "callable", val |-> "job_f"],
      [kind |-> "callable", val |-> "lam"],
      [kind |-> "other", val |-> "42"] }

\* lines 29-40: the error __init__ raises, or "ok"
JobInitError(func) ==
    IF func.kind = "str"
    THEN IF ref_to_obj(func.val) = NoObj THEN "LookupError" ELSE "ok"
    ELSE IF func.kind = "callable" THEN "ok" ELSE "TypeError"

JobInit(trigger, func, args, kwargs, id, misfire_grace_time, coalesce, name, max_runs, max_instances) ==
    LET f == IF func.kind = "str" THEN ref_to_obj(func.val) ELSE func.val
    IN  [ id |-> IF id # "" THEN id ELSE uuid4_hex,
          func |-> f,
          func_ref |-> IF func.kind = "str" THEN func.val ELSE obj_to_ref(func.val),
          trigger |-> trigger,
          args |-> args,
          kwargs |-> kwargs,
          name |-> IF name # "" THEN name ELSE get_callable_name(f),
          misfire_grace_time |-> misfire_grace_time,
          coalesce |-> coalesce,
          max_runs |-> max_runs,
          max_instances |-> max_instances,
          runs |-> 0,
          instances |-> 0,
          next_run_time |-> None ]

\* the last-call record before any call
NoCall ==
    [ op |-> "none", now |-> None, pre |-> <<>>, result |-> None,
      times |-> <<>>, asked |-> <<>>, left |-> None, error |-> "none" ]

\* no __getstate__ result is held
NoSnapshot == [ error |-> "no call", state |-> <<>>, of |-> <<>> ]

\* no __setstate__ call has been made
NotLoaded == [ error |-> "no call", from |-> "none", job |-> <<>>, written |-> <<>> ]

\* the value of a slot that has not been assigned
Unset == -2
UnsetStr == "<unset>"

\* lines 139-140: __slots__ of JobHandle
HandleSlots ==
    { "_readonly", "scheduler", "jobstore", "id", "func_ref", "trigger", "args",
      "kwargs", "name", "misfire_grace_time", "coalesce", "max_runs",
      "max_instances", "runs", "instances", "next_run_time" }

\* _update_attributes_from_job with the copy of runs left out
CopiedSlots_no_runs ==
    << "func_ref", "trigger", "args", "kwargs", "name", "misfire_grace_time",
       "coalesce", "max_runs", "max_instances", "next_run_time" >>

\* lines 179-189: the slots _update_attributes_from_job copies, in order
CopiedSlots ==
    << "func_ref", "trigger", "args", "kwargs", "name", "misfire_grace_time",
       "coalesce", "max_runs", "max_instances", "runs", "next_run_time" >>

\* lines 139-140: a JobHandle before __init__ has assigned anything
BlankHandle ==
    [ k \in HandleSlots |->
        IF k = "_readonly" \/ k = "coalesce" THEN FALSE
        ELSE IF k \in {"scheduler", "jobstore", "id", "func_ref", "name"} THEN UnsetStr
        ELSE IF k = "trigger" THEN [t \in Instants |-> Unset]
        ELSE IF k \in {"args", "kwargs"} THEN <<UnsetStr>>
        ELSE Unset ]

\* no call has been made on the JobHandle
NoHCall ==
    [ op |-> "none", error |-> "none", pre |-> BlankHandle, key |-> "none",
      changes |-> <<>>, fetched |-> <<>> ]

---------------------------------------------------------------------------
(* The instance admission gate: add_instance and remove_instance, one      *)
(* statement per step, called by the threads of Threads.                   *)

\* add_instance_full testing with > instead of ==
add_instance_full_late(j) == j.instances > j.max_instances

\* add_instance_full denying one admission early
add_instance_full_early(j) == j.instances + 1 >= j.max_instances

\* line 79: the test that denies admission
add_instance_full(j) == j.instances = j.max_instances

\* line 81
add_instance_incr(j) == [j EXCEPT !.instances = @ + 1]

\* remove_instance_assert asserting >= 0 instead of > 0
remove_instance_assert_weak(j) == j.instances >= 0

\* line 85: the asserted condition
remove_instance_assert(j) == j.instances > 0

\* line 86
remove_instance_decr(j) == [j EXCEPT !.instances = @ - 1]

Record(op, ok) ==
    Append(history, [op |-> op, ok |-> ok, before |-> job.instances])

\* a thread enters add_instance
CallAddInstance(t) ==
    /\ pc[t] = "idle"
    /\ Len(history) + Cardinality({u \in Threads : pc[u] # "idle"}) < MaxOps
    /\ pc' = [pc EXCEPT ![t] = "add_with"]
    /\ outcome' = [outcome EXCEPT ![t] = "running"]
    /\ UNCHANGED <<job, lock, history, clock, tpc, now_, run_times, last, snapshot, loaded,
                   handle, present, hcall, read, run_time_>>

\* add_instance entering its body without waiting for the lock
AddAcquire_unlocked(t) ==
    /\ pc[t] = "add_with"
    /\ lock' = t
    /\ pc' = [pc EXCEPT ![t] = "add_if"]
    /\ UNCHANGED <<job, outcome, history, clock, tpc, now_, run_times, last, snapshot, loaded,
                   handle, present, hcall, read, run_time_>>

\* line 78: with self._lock (acquire)
AddAcquire(t) ==
    /\ pc[t] = "add_with"
    /\ lock = NoThread
    /\ lock' = t
    /\ pc' = [pc EXCEPT ![t] = "add_if"]
    /\ UNCHANGED <<job, outcome, history, clock, tpc, now_, run_times, last, snapshot, loaded,
                   handle, present, hcall, read, run_time_>>

\* line 79: if self.instances == self.max_instances
AddIf(t) ==
    /\ pc[t] = "add_if"
    /\ pc' = [pc EXCEPT ![t] = IF add_instance_full(job) THEN "add_raise" ELSE "add_load"]
    /\ UNCHANGED <<job, lock, outcome, history, clock, tpc, now_, run_times, last, snapshot, loaded,
                   handle, present, hcall, read, run_time_>>

\* the raise of line 80 leaving add_instance with the lock still held
AddRaise_keep_lock(t) ==
    /\ pc[t] = "add_raise"
    /\ pc' = [pc EXCEPT ![t] = "idle"]
    /\ outcome' = [outcome EXCEPT ![t] = "MaxInstancesReachedError"]
    /\ history' = Record("add", FALSE)
    /\ UNCHANGED <<job, lock, clock, tpc, now_, run_times, last, snapshot, loaded,
                   handle, present, hcall, read, run_time_>>

\* line 80: raise MaxInstancesReachedError, leaving the with block
AddRaise(t) ==
    /\ pc[t] = "add_raise"
    /\ lock' = NoThread
    /\ pc' = [pc EXCEPT ![t] = "idle"]
    /\ outcome' = [outcome EXCEPT ![t] = "MaxInstancesReachedError"]
    /\ history' = Record("add", FALSE)
    /\ UNCHANGED <<job, clock, tpc, now_, run_times, last, snapshot, loaded,
                   handle, present, hcall, read, run_time_>>

\* line 81: self.instances += 1, the read of self.instances
AddLoad(t) ==
    /\ pc[t] = "add_load"
    /\ read' = [read EXCEPT ![t] = job.instances]
    /\ pc' = [pc EXCEPT ![t] = "add_incr"]
    /\ UNCHANGED <<job, lock, outcome, history, clock, tpc, now_, run_times, last,
                   snapshot, loaded, handle, present, hcall, run_time_>>

\* line 81: self.instances += 1, the store of the value read plus one
AddIncr(t) ==
    /\ pc[t] = "add_incr"
    /\ job' = add_instance_incr([job EXCEPT !.instances = read[t]])
    /\ read' = [read EXCEPT ![t] = None]
    /\ pc' = [pc EXCEPT ![t] = "add_exit"]
    /\ history' = Record("add", TRUE)
    /\ UNCHANGED <<lock, outcome, clock, tpc, now_, run_times, last, snapshot, loaded,
                   handle, present, hcall, run_time_>>

\* the end of the with block of add_instance (release)
AddExit(t) ==
    /\ pc[t] = "add_exit"
    /\ lock' = NoThread
    /\ pc' = [pc EXCEPT ![t] = "idle"]
    /\ outcome' = [outcome EXCEPT ![t] = "ok"]
    /\ UNCHANGED <<job, history, clock, tpc, now_, run_times, last, snapshot, loaded,
                   handle, present, hcall, read, run_time_>>

\* a thread enters remove_instance
CallRemoveInstance(t) ==
    /\ pc[t] = "idle"
    /\ Len(history) + Cardinality({u \in Threads : pc[u] # "idle"}) < MaxOps
    /\ pc' = [pc EXCEPT ![t] = "rem_with"]
    /\ outcome' = [outcome EXCEPT ![t] = "running"]
    /\ UNCHANGED <<job, lock, history, clock, tpc, now_, run_times, last, snapshot, loaded,
                   handle, present, hcall, read, run_time_>>

\* line 84: with self._lock (acquire)
RemAcquire(t) ==
    /\ pc[t] = "rem_with"
    /\ lock = NoThread
    /\ lock' = t
    /\ pc' = [pc EXCEPT ![t] = "rem_assert"]
    /\ UNCHANGED <<job, outcome, history, clock, tpc, now_, run_times, last, snapshot, loaded,
                   handle, present, hcall, read, run_time_>>

\* line 85: assert self.instances > 0
RemAssert(t) ==
    /\ pc[t] = "rem_assert"
    /\ pc' = [pc EXCEPT ![t] = IF remove_instance_assert(job) THEN "rem_load" ELSE "rem_raise"]
    /\ UNCHANGED <<job, lock, outcome, history, clock, tpc, now_, run_times, last, snapshot, loaded,
                   handle, present, hcall, read, run_time_>>

\* line 85: AssertionError, leaving the with block
RemRaise(t) ==
    /\ pc[t] = "rem_raise"
    /\ lock' = NoThread
    /\ pc' = [pc EXCEPT ![t] = "idle"]
    /\ outcome' = [outcome EXCEPT ![t] = "AssertionError"]
    /\ history' = Record("remove", FALSE)
    /\ UNCHANGED <<job, clock, tpc, now_, run_times, last, snapshot, loaded,
                   handle, present, hcall, read, run_time_>>

\* line 86: self.instances -= 1, the read of self.instances
RemLoad(t) ==
    /\ pc[t] = "rem_load"
    /\ read' = [read EXCEPT ![t] = job.instances]
    /\ pc' = [pc EXCEPT ![t] = "rem_decr"]
    /\ UNCHANGED <<job, lock, outcome, history, clock, tpc, now_, run_times, last,
                   snapshot, loaded, handle, present, hcall, run_time_>>

\* line 86: self.instances -= 1, the store of the value read minus one
RemDecr(t) ==
    /\ pc[t] = "rem_decr"
    /\ job' = remove_instance_decr([job EXCEPT !.instances = read[t]])
    /\ read' = [read EXCEPT ![t] = None]
    /\ pc' = [pc EXCEPT ![t] = "rem_exit"]
    /\ history' = Record("remove", TRUE)
    /\ UNCHANGED <<lock, outcome, clock, tpc, now_, run_times, last, snapshot, loaded,
                   handle, present, hcall, run_time_>>

\* the end of the with block of remove_instance (release)
RemExit(t) ==
    /\ pc[t] = "rem_exit"
    /\ lock' = NoThread
    /\ pc' = [pc EXCEPT ![t] = "idle"]
    /\ outcome' = [outcome EXCEPT ![t] = "ok"]
    /\ UNCHANGED <<job, history, clock, tpc, now_, run_times, last, snapshot, loaded,
                   handle, present, hcall, read, run_time_>>

\* a Job as the scheduler constructs it for the gate: max_instances >= 1
Init ==
    /\ \E m \in 1 .. MaxInstancesBound :
         job = JobInit(EveryInstant, [kind |-> "callable", val |-> "job_f"],
                       <<>>, <<>>, "job1", 1, FALSE, "", None, m)
    /\ lock = NoThread
    /\ pc = [t \in Threads |-> "idle"]
    /\ outcome = [t \in Threads |-> "none"]
    /\ history = <<>>
    /\ clock = 0
    /\ tpc = "idle"
    /\ now_ = None
    /\ run_times = <<>>
    /\ last = NoCall
    /\ snapshot = NoSnapshot
    /\ loaded = NotLoaded
    /\ handle = BlankHandle
    /\ present = TRUE
    /\ hcall = NoHCall
    /\ read = [t \in Threads |-> None]
    /\ run_time_ = None

Next ==
    \E t \in Threads :
        \/ CallAddInstance(t)
        \/ AddAcquire(t)
        \/ AddIf(t)
        \/ AddLoad(t)
        \/ AddRaise(t)
        \/ AddIncr(t)
        \/ AddExit(t)
        \/ CallRemoveInstance(t)
        \/ RemAcquire(t)
        \/ RemAssert(t)
        \/ RemLoad(t)
        \/ RemRaise(t)
        \/ RemDecr(t)
        \/ RemExit(t)

Spec == Init /\ [][Next]_vars

---------------------------------------------------------------------------
(* Next-run-time computation and run-time enumeration. *)

\* runs_reached_max testing with > instead of ==
runs_reached_max_late(j) == j.max_runs # None /\ j.runs > j.max_runs

\* line 57: self.runs == self.max_runs (never true of max_runs None)
runs_reached_max(j) == j.max_runs # None /\ j.runs = j.max_runs

\* lines 56-62: the Job afterwards and the instants the trigger was asked
\* about; the value returned is the new next_run_time
compute_next_run_time(j, now) ==
    IF runs_reached_max(j)
    THEN [ job |-> [j EXCEPT !.next_run_time = None], asked |-> <<>> ]
    ELSE [ job |-> [j EXCEPT !.next_run_time = get_next_fire_time(j.trigger, now)],
           asked |-> <<now>> ]

\* line 71: not self.max_runs or self.runs < self.max_runs
\* (None and 0 are the falsy values of max_runs)
run_budget_left(j) ==
    (j.max_runs = None \/ j.max_runs = 0) \/ j.runs < j.max_runs

\* run_time_due testing with < instead of <=
run_time_due_strict(run_time, now) == run_time # None /\ run_time < now

\* line 71: run_time and run_time <= now (a datetime is always truthy)
run_time_due(run_time, now) == run_time # None /\ run_time <= now

\* lines 71-73: the while loop, from the candidate run_time on
RECURSIVE get_run_times_loop(_, _, _, _, _)
get_run_times_loop(j, now, run_time, collected, asked) ==
    IF run_budget_left(j) /\ run_time_due(run_time, now)
    THEN get_run_times_loop(j, now,
             get_next_fire_time(j.trigger, run_time + increment),
             Append(collected, run_time),
             Append(asked, run_time + increment))
    ELSE [ times |-> collected, asked |-> asked, left |-> run_time ]

\* lines 64-75: the list returned, the instants the trigger was asked about
\* and the candidate the loop stopped at
get_run_times(j, now) == get_run_times_loop(j, now, j.next_run_time, <<>>, <<>>)

---------------------------------------------------------------------------
(* The scheduler's tick, as the spec describes the owning scheduler: it    *)
(* calls get_run_times(now), performs one execution (runs += 1) for each   *)
(* fire time returned and then calls compute_next_run_time(now).  Ticks    *)
(* come at strictly increasing instants.                                   *)

TickGetRunTimes ==
    /\ tpc = "idle"
    /\ \E now \in clock .. MaxTime :
         LET r == get_run_times(job, now)
         IN  /\ now_' = now
             /\ clock' = now + 1
             /\ run_times' = r.times
             /\ last' = [ op |-> "get_run_times", now |-> now, pre |-> job,
                          result |-> None, times |-> r.times, asked |-> r.asked,
                          left |-> r.left, error |-> "none" ]
    /\ tpc' = "run"
    /\ UNCHANGED <<job, lock, pc, outcome, history, snapshot, loaded,
                   handle, present, hcall, read, run_time_>>

\* one execution of the job for the oldest pending fire time
TickRunJob ==
    /\ tpc = "run"
    /\ run_times # <<>>
    /\ job' = [job EXCEPT !.runs = @ + 1]
    /\ run_times' = Tail(run_times)
    /\ UNCHANGED <<lock, pc, outcome, history, clock, tpc, now_, last, snapshot, loaded,
                   handle, present, hcall, read, run_time_>>

TickComputeNextRunTime ==
    /\ tpc = "run"
    /\ run_times = <<>>
    /\ LET r == compute_next_run_time(job, now_)
       IN  /\ job' = r.job
           /\ last' = [ op |-> "compute_next_run_time", now |-> now_, pre |-> job,
                        result |-> r.job.next_run_time, times |-> <<>>,
                        asked |-> r.asked, left |-> None, error |-> "none" ]
    /\ tpc' = "idle"
    /\ UNCHANGED <<lock, pc, outcome, history, clock, now_, run_times, snapshot, loaded,
                   handle, present, hcall, read, run_time_>>

\* the values max_runs is constructed with: None, 0 and the bounded ones
MaxRunsValues == {None} \cup (0 .. MaxRunsBound)

InitTick ==
    /\ \E trigger \in Triggers, max_runs \in MaxRunsValues :
         job = JobInit(trigger, [kind |-> "callable", val |-> "job_f"],
                       <<>>, <<>>, "job1", 1, FALSE, "", max_runs, 1)
    /\ lock = NoThread
    /\ pc = [t \in Threads |-> "idle"]
    /\ outcome = [t \in Threads |-> "none"]
    /\ history = <<>>
    /\ clock = 0
    /\ tpc = "idle"
    /\ now_ = None
    /\ run_times = <<>>
    /\ last = NoCall
    /\ snapshot = NoSnapshot
    /\ loaded = NotLoaded
    /\ handle = BlankHandle
    /\ present = TRUE
    /\ hcall = NoHCall
    /\ read = [t \in Threads |-> None]
    /\ run_time_ = None

NextTick ==
    \/ TickGetRunTimes
    \/ TickRunJob
    \/ TickComputeNextRunTime

SpecTick == InitTick /\ [][NextTick]_vars

---------------------------------------------------------------------------
(* Properties of the admission gate, checked under Spec. *)

\* the step in which a gate call took effect under the lock
GateStep(op) ==
    /\ history' # history
    /\ history'[Len(history')].op = op

GateOk == history'[Len(history')].ok

OpsOf(h) == [i \in 1 .. Len(h) |-> h[i].op]
OksOf(h) == [i \in 1 .. Len(h) |-> h[i].ok]
BeforeOf(h) == [i \in 1 .. Len(h) |-> h[i].before]

\* C1: with max_instances fixed at a value >= 1, under every interleaving of
\* add_instance and remove_instance calls by concurrent threads, failed
\* calls included, 0 <= instances <= max_instances.
C1_InstancesInRange ==
    /\ job.max_instances >= 1
    /\ 0 <= job.instances
    /\ job.instances <= job.max_instances

\* C1 witness: the gate is full after a denied add and a failed remove.
C1_Witness ==
    /\ job.instances = job.max_instances
    /\ \E i \in 1 .. Len(history) : history[i].op = "add" /\ ~history[i].ok
    /\ \E i \in 1 .. Len(history) : history[i].op = "remove" /\ ~history[i].ok

C2_Scenario == <<"add", "add", "add", "remove", "add">>

\* C2: add_instance succeeds exactly when instances < max_instances at its
\* check and then raises instances by exactly 1; otherwise it fails with
\* MaxInstancesReachedError and leaves every Job field unchanged.  With
\* max_instances = 2: two adds succeed, a third is denied with instances
\* still 2, and after one remove the next add succeeds.
C2_AddInstanceAdmission ==
    /\ [][ (GateStep("add") =>
              /\ GateOk <=> (job.instances < job.max_instances)
              /\ GateOk => job' = [job EXCEPT !.instances = job.instances + 1]
              /\ ~GateOk => job' = job)
           /\ (\A t \in Threads :
                 (outcome'[t] = "MaxInstancesReachedError" /\ pc[t] = "add_raise")
                    => job' = job /\ ~(job.instances < job.max_instances)) ]_vars
    /\ [] ( (job.max_instances = 2 /\ OpsOf(history) = C2_Scenario) =>
              /\ OksOf(history) = <<TRUE, TRUE, FALSE, TRUE, TRUE>>
              /\ BeforeOf(history) = <<0, 1, 2, 2, 1>>
              /\ job.instances = 2 )

\* C2 witness: the scenario has run on a Job with max_instances = 2.
C2_Witness ==
    /\ job.max_instances = 2
    /\ OpsOf(history) = C2_Scenario
    /\ \A t \in Threads : pc[t] = "idle"

\* C3: remove_instance at instances = 0 fails and leaves instances at 0, so
\* instances is never negative; at instances > 0 it lowers instances by
\* exactly 1.
C3_RemoveInstance ==
    /\ [][ (GateStep("remove") =>
              /\ GateOk <=> (job.instances > 0)
              /\ GateOk => job' = [job EXCEPT !.instances = job.instances - 1]
              /\ ~GateOk => job' = job /\ job.instances = 0)
           /\ (\A t \in Threads :
                 (outcome'[t] = "AssertionError" /\ pc[t] = "rem_raise")
                    => job'.instances = 0) ]_vars
    /\ [] (job.instances >= 0)

\* C3 witness: a remove has failed at zero and another has succeeded.
C3_Witness ==
    /\ \E i \in 1 .. Len(history) :
         history[i].op = "remove" /\ ~history[i].ok /\ history[i].before = 0
    /\ \E i \in 1 .. Len(history) :
         history[i].op = "remove" /\ history[i].ok /\ history[i].before > 0
    /\ \A t \in Threads : pc[t] = "idle"

---------------------------------------------------------------------------
(* Properties of compute_next_run_time and get_run_times, checked under    *)
(* SpecTick.                                                               *)

\* max_runs is a bound: neither None nor zero
Bounded(max_runs) == max_runs # None /\ max_runs # 0

StrictlyIncreasing(s) == \A i, k \in 1 .. Len(s) : i < k => s[i] < s[k]

\* C4: with bounded max_runs and runs = max_runs, every call of
\* compute_next_run_time(now) sets next_run_time to None and returns None
\* without asking the trigger, whatever now is and whatever the trigger
\* would return.
C4_RetiredAtMaxRuns ==
    ( /\ last.op = "compute_next_run_time"
      /\ Bounded(last.pre.max_runs)
      /\ last.pre.runs = last.pre.max_runs )
    => ( /\ last.result = None
         /\ last.asked = <<>>
         /\ job.next_run_time = None )

\* C4 witness: a call at runs = max_runs retired a job that had a
\* next_run_time and whose trigger had a fire time to give.
C4_Witness ==
    /\ last.op = "compute_next_run_time"
    /\ Bounded(last.pre.max_runs)
    /\ last.pre.runs = last.pre.max_runs
    /\ last.pre.next_run_time # None
    /\ last.pre.trigger[last.now] # None
    /\ job.next_run_time = None

\* C5: with max_runs None or 0 the job is unbounded: compute_next_run_time
\* asks the trigger and stores its answer (also at runs = 0), and
\* get_run_times is never cut short by the run budget.
C5_UnboundedNeverRetired ==
    /\ (last.op = "compute_next_run_time" /\ ~Bounded(last.pre.max_runs))
         => ( /\ last.asked = <<last.now>>
              /\ last.result = last.pre.trigger[last.now]
              /\ job.next_run_time = last.result )
    /\ (last.op = "get_run_times" /\ ~Bounded(last.pre.max_runs))
         => (last.left = None \/ last.left > last.now)

\* the run budget is used up: max_runs is a bound and runs has reached it
BudgetExhausted(j) == Bounded(j.max_runs) /\ j.runs >= j.max_runs

\* the scenario's fire times 10:00, 10:01, 10:02 as the instants 0, 1, 2, with
\* no fire time at instant 3, which stands for now = 10:02:30
C6_ScenarioTrigger(trigger) ==
    /\ trigger[0] = 0
    /\ trigger[1] = 1
    /\ trigger[2] = 2
    /\ trigger[3] # 3

C7_RunTimesWithinBudget ==
    (last.op = "get_run_times" /\ Bounded(last.pre.max_runs)) =>
        IF last.pre.runs <= last.pre.max_runs
        THEN Len(last.times) <= last.pre.max_runs - last.pre.runs
        ELSE last.times = <<>>

\* C8: with bounded max_runs, over the scheduler's ticks runs never exceeds
\* max_runs and never decreases.
C8_RunsWithinMaxRuns ==
    /\ Bounded(job.max_runs) => job.runs <= job.max_runs
    /\ last.op # "none" => job.runs >= last.pre.runs

---------------------------------------------------------------------------
(* Versioned pickling state: __getstate__ and __setstate__. *)

\* not self.func_ref: None and the empty string are falsy
func_ref_missing(j) == j.func_ref = NoRef \/ j.func_ref = ""

\* __getstate__ without the test of func_ref
getstate_unchecked(j) ==
    [ error |-> "none",
      state |-> [ version |-> 1, id |-> j.id, func_ref |-> j.func_ref,
                  trigger |-> j.trigger, args |-> j.args, kwargs |-> j.kwargs,
                  name |-> j.name, misfire_grace_time |-> j.misfire_grace_time,
                  coalesce |-> j.coalesce, max_runs |-> j.max_runs,
                  max_instances |-> j.max_instances, runs |-> j.runs,
                  next_run_time |-> j.next_run_time ] ]

\* __getstate__ writing the instance count where the run count belongs
getstate_runs_swapped(j) ==
    IF func_ref_missing(j)
    THEN [ error |-> "ValueError", state |-> <<>> ]
    ELSE [ error |-> "none",
           state |-> [ version |-> 1, id |-> j.id, func_ref |-> j.func_ref,
                       trigger |-> j.trigger, args |-> j.args, kwargs |-> j.kwargs,
                       name |-> j.name, misfire_grace_time |-> j.misfire_grace_time,
                       coalesce |-> j.coalesce, max_runs |-> j.max_runs,
                       max_instances |-> j.max_instances, runs |-> j.instances,
                       next_run_time |-> j.next_run_time ] ]

\* lines 88-106: the error raised, or the mapping returned
getstate(j) ==
    IF func_ref_missing(j)
    THEN [ error |-> "ValueError", state |-> <<>> ]
    ELSE [ error |-> "none",
           state |-> [ version |-> 1, id |-> j.id, func_ref |-> j.func_ref,
                       trigger |-> j.trigger, args |-> j.args, kwargs |-> j.kwargs,
                       name |-> j.name, misfire_grace_time |-> j.misfire_grace_time,
                       coalesce |-> j.coalesce, max_runs |-> j.max_runs,
                       max_instances |-> j.max_instances, runs |-> j.runs,
                       next_run_time |-> j.next_run_time ] ]

\* the object __setstate__ is applied to: every slot unassigned
BlankJob ==
    [ id |-> UnsetStr, func |-> UnsetStr, func_ref |-> UnsetStr,
      trigger |-> [t \in Instants |-> Unset], args |-> <<UnsetStr>>,
      kwargs |-> <<UnsetStr>>, name |-> UnsetStr, misfire_grace_time |-> Unset,
      coalesce |-> FALSE, max_runs |-> Unset, max_instances |-> Unset,
      runs |-> Unset, instances |-> Unset, next_run_time |-> Unset ]

\* line 109: state.get('version', 1)
state_version(state) ==
    IF "version" \in DOMAIN state THEN state.version ELSE 1

\* lines 112-123: the slots assigned from the mapping, in order
PersistedSlots ==
    << "id", "func_ref", "trigger", "args", "kwargs", "name",
       "misfire_grace_time", "coalesce", "max_runs", "max_instances", "runs",
       "next_run_time" >>

\* lines 112-123
setstate_assign(target, state) ==
    [ target EXCEPT
        !.id = state.id, !.func_ref = state.func_ref, !.trigger = state.trigger,
        !.args = state.args, !.kwargs = state.kwargs, !.name = state.name,
        !.misfire_grace_time = state.misfire_grace_time,
        !.coalesce = state.coalesce, !.max_runs = state.max_runs,
        !.max_instances = state.max_instances, !.runs = state.runs,
        !.next_run_time = state.next_run_time ]

\* __setstate__ testing the version only after the slots are assigned
setstate_late_check(target, state) ==
    IF state_version(state) > 1
    THEN [ error |-> "ValueError", job |-> setstate_assign(target, state),
           written |-> PersistedSlots ]
    ELSE [ error |-> "none",
           job |-> [ setstate_assign(target, state) EXCEPT
                       !.func = ref_to_obj(state.func_ref), !.instances = 0 ],
           written |-> PersistedSlots \o <<"_lock", "func", "instances">> ]

\* lines 108-127: the error raised, the object afterwards and the slots
\* assigned, in order
setstate(target, state) ==
    IF state_version(state) > 1
    THEN [ error |-> "ValueError", job |-> target, written |-> <<>> ]
    ELSE LET assigned == setstate_assign(target, state)
         IN  IF ref_to_obj(assigned.func_ref) = NoObj
             THEN [ error |-> "LookupError", job |-> assigned,
                    written |-> PersistedSlots \o <<"_lock">> ]
             ELSE [ error |-> "none",
                    job |-> [ assigned EXCEPT
                                !.func = ref_to_obj(assigned.func_ref),
                                !.instances = 0 ],
                    written |-> PersistedSlots \o <<"_lock", "func", "instances">> ]

\* the mappings handed to __setstate__: the one __getstate__ returned, the
\* same with a later version, with no version key, and with a reference
\* that no longer resolves
Variants == { "as written", "version 2", "no version", "stale reference" }

Variant(state, v) ==
    IF v = "version 2" THEN [state EXCEPT !.version = 2]
    ELSE IF v = "no version"
         THEN [k \in DOMAIN state \ {"version"} |-> state[k]]
    ELSE IF v = "stale reference" THEN [state EXCEPT !.func_ref = "mod:missing"]
    ELSE state

\* a call of a Job method that is not part of a tick
Call(op, pre, error) ==
    [ op |-> op, now |-> None, pre |-> pre, result |-> None, times |-> <<>>,
      asked |-> <<>>, left |-> None, error |-> error ]

\* add_instance called by one thread, from acquire to release
AddInstance ==
    /\ job' = IF add_instance_full(job) THEN job ELSE add_instance_incr(job)
    /\ last' = Call("add_instance", job,
                    IF add_instance_full(job) THEN "MaxInstancesReachedError" ELSE "none")
    /\ UNCHANGED <<lock, pc, outcome, history, clock, tpc, now_, run_times,
                   snapshot, loaded,
                   handle, present, hcall, read, run_time_>>

\* remove_instance called by one thread, from acquire to release
RemoveInstance ==
    /\ job' = IF remove_instance_assert(job) THEN remove_instance_decr(job) ELSE job
    /\ last' = Call("remove_instance", job,
                    IF remove_instance_assert(job) THEN "none" ELSE "AssertionError")
    /\ UNCHANGED <<lock, pc, outcome, history, clock, tpc, now_, run_times,
                   snapshot, loaded,
                   handle, present, hcall, read, run_time_>>

\* __getstate__ (to_snapshot)
ToSnapshot ==
    /\ snapshot = NoSnapshot
    /\ LET r == getstate(job)
       IN  /\ snapshot' = [ error |-> r.error, state |-> r.state, of |-> job ]
           /\ last' = Call("__getstate__", job, r.error)
    /\ UNCHANGED <<job, lock, pc, outcome, history, clock, tpc, now_, run_times,
                   loaded,
                   handle, present, hcall, read, run_time_>>

\* __setstate__ (from_snapshot) on a new object
FromSnapshot ==
    /\ snapshot.error = "none"
    /\ loaded = NotLoaded
    /\ \E v \in Variants :
         LET r == setstate(BlankJob, Variant(snapshot.state, v))
         IN  /\ loaded' = [ error |-> r.error, from |-> v, job |-> r.job,
                            written |-> r.written ]
             /\ last' = Call("__setstate__", BlankJob, r.error)
    /\ UNCHANGED <<job, lock, pc, outcome, history, clock, tpc, now_, run_times,
                   snapshot,
                   handle, present, hcall, read, run_time_>>

\* the mapping and the object loaded from it are dropped
DropSnapshot ==
    /\ snapshot # NoSnapshot
    /\ snapshot' = NoSnapshot
    /\ loaded' = NotLoaded
    /\ UNCHANGED <<job, lock, pc, outcome, history, clock, tpc, now_, run_times,
                   last,
                   handle, present, hcall, read, run_time_>>

\* the triggers of the pickled jobs
SnapTriggers ==
    { EveryInstant, [t \in Instants |-> IF t <= 1 THEN 1 ELSE None] }

\* the descriptive arguments a Job is constructed with: left to their
\* defaults, or all given
Profiles ==
    { [ id |-> "", name |-> "", args |-> <<>>, kwargs |-> <<>>,
        misfire_grace_time |-> None, coalesce |-> FALSE ],
      [ id |-> "job1", name |-> "nightly", args |-> <<"x">>, kwargs |-> <<"k", "v">>,
        misfire_grace_time |-> 1, coalesce |-> TRUE ] }

InitSnap ==
    /\ \E trigger \in SnapTriggers, func \in FuncArgs, p \in Profiles,
          max_runs \in {None, MaxRunsBound}, max_instances \in 1 .. MaxInstancesBound :
         /\ JobInitError(func) = "ok"
         /\ job = JobInit(trigger, func, p.args, p.kwargs, p.id,
                          p.misfire_grace_time, p.coalesce, p.name,
                          max_runs, max_instances)
    /\ lock = NoThread
    /\ pc = [t \in Threads |-> "idle"]
    /\ outcome = [t \in Threads |-> "none"]
    /\ history = <<>>
    /\ clock = 0
    /\ tpc = "idle"
    /\ now_ = None
    /\ run_times = <<>>
    /\ last = NoCall
    /\ snapshot = NoSnapshot
    /\ loaded = NotLoaded
    /\ handle = BlankHandle
    /\ present = TRUE
    /\ hcall = NoHCall
    /\ read = [t \in Threads |-> None]
    /\ run_time_ = None

\* __setstate__ reads the mapping only, so the Job is left at rest while a
\* mapping is held
NextSnap ==
    \/ snapshot = NoSnapshot /\ TickGetRunTimes
    \/ snapshot = NoSnapshot /\ TickRunJob
    \/ snapshot = NoSnapshot /\ TickComputeNextRunTime
    \/ snapshot = NoSnapshot /\ AddInstance
    \/ snapshot = NoSnapshot /\ RemoveInstance
    \/ ToSnapshot
    \/ FromSnapshot
    \/ DropSnapshot

SpecSnap == InitSnap /\ [][NextSnap]_vars

---------------------------------------------------------------------------
(* Properties of the pickling state, checked under SpecSnap. *)

\* the slots whose values the mapping carries
SameDescription(a, b) ==
    /\ a.id = b.id
    /\ a.func_ref = b.func_ref
    /\ a.trigger = b.trigger
    /\ a.args = b.args
    /\ a.kwargs = b.kwargs
    /\ a.name = b.name
    /\ a.misfire_grace_time = b.misfire_grace_time
    /\ a.coalesce = b.coalesce
    /\ a.max_runs = b.max_runs
    /\ a.max_instances = b.max_instances
    /\ a.runs = b.runs
    /\ a.next_run_time = b.next_run_time

\* C9: for a serializable Job in any reachable state, executions in flight
\* included, __setstate__ applied to what __getstate__ returned gives a Job
\* with the same id, reference, trigger, args, kwargs, name,
\* misfire_grace_time, coalesce, max_runs, max_instances, runs and
\* next_run_time and with instances = 0; the mapping has version 1 and no
\* instances key.
C9_RoundTrip ==
    /\ snapshot.error = "none" =>
         /\ snapshot.state.version = 1
         /\ "instances" \notin DOMAIN snapshot.state
    /\ loaded.from = "as written" =>
         /\ loaded.error = "none"
         /\ SameDescription(loaded.job, snapshot.of)
         /\ loaded.job.instances = 0

\* C9 witness: a Job with an execution in flight, runs made and a next run
\* time has been pickled and loaded again.
C9_Witness ==
    /\ loaded.from = "as written"
    /\ loaded.error = "none"
    /\ snapshot.of.instances > 0
    /\ snapshot.of.runs > 0
    /\ snapshot.of.next_run_time # None
    /\ loaded.job.instances = 0

\* C10: a Job constructed from a callable with no derivable reference has
\* func_ref None, and every __getstate__ on it raises, returns no mapping
\* and leaves the Job unchanged; __getstate__ returns a mapping only for a
\* Job that has a reference.
C10_Unserializable ==
    /\ job.func = "lam" => job.func_ref = NoRef
    /\ snapshot # NoSnapshot =>
         /\ snapshot.error \in {"none", "ValueError"}
         /\ snapshot.error = "ValueError" <=> snapshot.of.func_ref = NoRef
         /\ snapshot.error = "ValueError" =>
              /\ DOMAIN snapshot.state = {}
              /\ job = snapshot.of
              /\ loaded = NotLoaded
         /\ snapshot.error = "none" =>
              /\ snapshot.of.func_ref # NoRef
              /\ snapshot.state.func_ref = snapshot.of.func_ref

\* C10 witness: __getstate__ has raised on a Job built from such a callable,
\* after the Job has run.
C10_Witness ==
    /\ job.func = "lam"
    /\ job.func_ref = NoRef
    /\ job.runs > 0
    /\ last.op = "__getstate__"
    /\ snapshot.error = "ValueError"

\* C11: __setstate__ given a mapping whose version is greater than 1 raises
\* the unsupported-version error before any slot of the target is
\* assigned: the target is as it was and nothing has been written.
C11_VersionRejectedFirst ==
    loaded.from = "version 2" =>
        /\ loaded.error = "ValueError"
        /\ loaded.written = <<>>
        /\ loaded.job = BlankJob

\* C11 witness: the pickled state of a Job that has run was handed to
\* __setstate__ with version 2 and was rejected.
C11_Witness ==
    /\ loaded.from = "version 2"
    /\ loaded.error = "ValueError"
    /\ snapshot.of.runs > 0
    /\ snapshot.state.runs > 0
    /\ last.op = "__setstate__"

---------------------------------------------------------------------------
(* JobHandle.  The handle is a function from slot names to values; the     *)
(* scheduler it delegates to is the spec's Scheduler interface: it keeps   *)
(* the Job under its id until the Job is unscheduled.                      *)

\* __setattr__ with the mode test applied to the flag instead of the fields
handle_setattr_open(h, key, value) ==
    IF key # "_readonly" \/ ~h["_readonly"]
    THEN [ error |-> "none", handle |-> [h EXCEPT ![key] = value] ]
    ELSE [ error |-> "AttributeError", handle |-> h ]

\* lines 191-196: __setattr__
handle_setattr(h, key, value) ==
    IF key = "_readonly" \/ ~h["_readonly"]
    THEN [ error |-> "none", handle |-> [h EXCEPT ![key] = value] ]
    ELSE [ error |-> "AttributeError", handle |-> h ]

\* what a scheduler call hands back: a Job, None, or an exception
GotJob(j) == [ kind |-> "Job", obj |-> j ]
GotNone == [ kind |-> "None", obj |-> BlankJob ]
GotError == [ kind |-> "raise", obj |-> BlankJob ]

\* lines 178-189: _update_attributes_from_job, one assignment after the
\* other; reading an attribute of None raises AttributeError
RECURSIVE update_attributes_from_job_loop(_, _, _)
update_attributes_from_job_loop(h, got, slots) ==
    IF slots = <<>> THEN [ error |-> "none", handle |-> h ]
    ELSE IF got.kind # "Job" THEN [ error |-> "AttributeError", handle |-> h ]
    ELSE LET r == handle_setattr(h, Head(slots), got.obj[Head(slots)])
         IN  IF r.error # "none" THEN r
             ELSE update_attributes_from_job_loop(r.handle, got, Tail(slots))

update_attributes_from_job(h, got) ==
    update_attributes_from_job_loop(h, got, CopiedSlots)

\* lines 142-149: __init__
handle_init(scheduler, jobstore, j) ==
    LET h1 == handle_setattr(BlankHandle, "_readonly", FALSE).handle
        h2 == handle_setattr(h1, "scheduler", scheduler).handle
        h3 == handle_setattr(h2, "jobstore", jobstore).handle
        h4 == handle_setattr(h3, "id", j.id).handle
        c  == update_attributes_from_job(h4, GotJob(j))
    IN  IF c.error # "none" THEN c
        ELSE [ error |-> "none",
               handle |-> handle_setattr(c.handle, "_readonly", TRUE).handle ]

\* refresh without the try/finally around the copy
handle_refresh_no_finally(h, got) ==
    IF got.kind = "raise" THEN [ error |-> "LookupError", handle |-> h ]
    ELSE LET w == handle_setattr(h, "_readonly", FALSE).handle
             c == update_attributes_from_job(w, got)
         IN  IF c.error # "none" THEN c
             ELSE [ error |-> "none",
                    handle |-> handle_setattr(c.handle, "_readonly", TRUE).handle ]

\* lines 163-169: refresh, given what get_job handed back
handle_refresh(h, got) ==
    IF got.kind = "raise" THEN [ error |-> "LookupError", handle |-> h ]
    ELSE LET w == handle_setattr(h, "_readonly", FALSE).handle
             c == update_attributes_from_job(w, got)
         IN  [ error |-> c.error,
               handle |-> handle_setattr(c.handle, "_readonly", TRUE).handle ]

\* lines 154-161: modify, given the outcome of modify_job and what get_job
\* handed back for the id the handle then holds
handle_modify(h, modified, changes, got) ==
    IF modified # "none" THEN [ error |-> modified, handle |-> h ]
    ELSE LET w == handle_setattr(h, "_readonly", FALSE).handle
             a == handle_setattr(w, "id", IF "id" \in DOMAIN changes
                                          THEN changes["id"] ELSE w["id"]).handle
             r == handle_refresh(a, got)
         IN  [ error |-> r.error,
               handle |-> handle_setattr(r.handle, "_readonly", TRUE).handle ]

\* the scheduler lists the Job j under this id
listed(j, p, id) == p /\ j.id = id

\* Scheduler.get_job(id, store): the Job, or no Job, or a failed lookup
get_job(j, p, id) ==
    IF listed(j, p, id) THEN { GotJob(j), GotError } ELSE { GotNone, GotError }

\* Scheduler.modify_job(id, store, **changes): the named fields of the Job
\* are set, or the Job is not found
modify_job(j, p, id, changes) ==
    IF listed(j, p, id)
    THEN [ error |-> "none",
           job |-> [k \in DOMAIN j |-> IF k \in DOMAIN changes THEN changes[k] ELSE j[k]] ]
    ELSE [ error |-> "KeyError", job |-> j ]

\* Scheduler.unschedule_job(id, store)
unschedule_job(j, p, id) ==
    IF listed(j, p, id) THEN [ error |-> "none", present |-> FALSE ]
    ELSE [ error |-> "KeyError", present |-> p ]

\* the changes a caller asks for
Changes ==
    { ("name" :> "renamed"),
      ("id" :> "job2"),
      ("id" :> "job2") @@ ("name" :> "renamed") }

\* the slots a caller reads and may try to assign: all but the mode flag
PublicSlots == HandleSlots \ {"_readonly"}

\* a value a caller tries to assign to a slot
AssignedValue(key) ==
    IF key = "coalesce" THEN ~handle[key]
    ELSE IF key \in {"scheduler", "jobstore", "id", "func_ref", "name"} THEN "mine"
    ELSE IF key = "trigger" THEN [t \in Instants |-> None]
    ELSE IF key \in {"args", "kwargs"} THEN <<"mine">>
    ELSE 7

Constructed == handle["scheduler"] # UnsetStr

HCall(op, pre, error, key, changes, got) ==
    [ op |-> op, error |-> error, pre |-> pre, key |-> key,
      changes |-> changes, fetched |-> got ]

\* the scheduler hands the Job to a caller as a JobHandle
HandleInit ==
    /\ ~Constructed
    /\ present
    /\ LET r == handle_init("scheduler", "default", job)
       IN  /\ handle' = r.handle
           /\ hcall' = HCall("__init__", handle, r.error, "none", <<>>, GotJob(job))
    /\ UNCHANGED <<job, lock, pc, outcome, history, clock, tpc, now_, run_times,
                   last, snapshot, loaded, present, read, run_time_>>

\* handle.refresh()
HandleRefresh ==
    /\ Constructed
    /\ \E got \in get_job(job, present, handle["id"]) :
         LET r == handle_refresh(handle, got)
         IN  /\ handle' = r.handle
             /\ hcall' = HCall("refresh", handle, r.error, "none", <<>>, got)
    /\ UNCHANGED <<job, lock, pc, outcome, history, clock, tpc, now_, run_times,
                   last, snapshot, loaded, present, read, run_time_>>

\* handle.modify(**changes)
HandleModify ==
    /\ Constructed
    /\ \E changes \in Changes :
         LET m == modify_job(job, present, handle["id"], changes)
             id == IF "id" \in DOMAIN changes THEN changes["id"] ELSE handle["id"]
         IN  /\ job' = m.job
             /\ \E got \in get_job(m.job, present, id) :
                  LET r == handle_modify(handle, m.error, changes, got)
                  IN  /\ handle' = r.handle
                      /\ hcall' = HCall("modify", handle, r.error, "none", changes,
                                        IF m.error = "none" THEN got ELSE GotError)
    /\ UNCHANGED <<lock, pc, outcome, history, clock, tpc, now_, run_times,
                   last, snapshot, loaded, present, read, run_time_>>

\* handle.remove(), lines 151-152
HandleRemove ==
    /\ Constructed
    /\ LET u == unschedule_job(job, present, handle["id"])
       IN  /\ present' = u.present
           /\ hcall' = HCall("remove", handle, u.error, "none", <<>>, GotError)
    /\ UNCHANGED <<job, lock, pc, outcome, history, clock, tpc, now_, run_times,
                   last, snapshot, loaded, handle, read, run_time_>>

\* the caller assigns a slot of the handle: handle.key = value
HandleAssign ==
    /\ Constructed
    /\ \E key \in PublicSlots :
         LET r == handle_setattr(handle, key, AssignedValue(key))
         IN  /\ handle' = r.handle
             /\ hcall' = HCall("assign", handle, r.error, key, <<>>, GotError)
    /\ UNCHANGED <<job, lock, pc, outcome, history, clock, tpc, now_, run_times,
                   last, snapshot, loaded, present, read, run_time_>>

\* the scheduler runs the Job once, outside the caller's sight: one more
\* run is counted and the next run time moves on
JobRuns ==
    /\ job.runs < MaxRunsBound
    /\ job' = [job EXCEPT !.runs = @ + 1, !.next_run_time = job.runs + 1]
    /\ UNCHANGED <<lock, pc, outcome, history, clock, tpc, now_, run_times,
                   last, snapshot, loaded, handle, present, hcall, read, run_time_>>

InitHandle ==
    /\ \E max_instances \in 1 .. MaxInstancesBound :
         job = JobInit(EveryInstant, [kind |-> "callable", val |-> "job_f"],
                       <<"x">>, <<"k", "v">>, "job1", 1, TRUE, "nightly",
                       None, max_instances)
    /\ lock = NoThread
    /\ pc = [t \in Threads |-> "idle"]
    /\ outcome = [t \in Threads |-> "none"]
    /\ history = <<>>
    /\ clock = 0
    /\ tpc = "idle"
    /\ now_ = None
    /\ run_times = <<>>
    /\ last = NoCall
    /\ snapshot = NoSnapshot
    /\ loaded = NotLoaded
    /\ handle = BlankHandle
    /\ present = TRUE
    /\ hcall = NoHCall
    /\ read = [t \in Threads |-> None]
    /\ run_time_ = None

\* the caller's handle operations, beside the scheduler running the Job
NextHandle ==
    \/ HandleInit
    \/ HandleRefresh
    \/ HandleModify
    \/ HandleRemove
    \/ HandleAssign
    \/ JobRuns

SpecHandle == InitHandle /\ [][NextHandle]_vars

---------------------------------------------------------------------------
(* Properties of the JobHandle, checked under SpecHandle. *)

ExposedSlots == PublicSlots \ {"scheduler", "jobstore", "instances"}

C13_Refreshed ==
    /\ hcall.op = "refresh"
    /\ hcall.error = "none"
    /\ handle["runs"] # hcall.pre["runs"]

\* the handle h shows the Job j: what a fresh refresh() from j gives
Matches(h, j) == \A k \in ExposedSlots : h[k] = j[k]

\* a call on the handle has just returned or raised
HandleStep ==
    /\ hcall' # hcall
    /\ hcall'.op \in {"__init__", "refresh", "modify", "remove", "assign"}

\* C14: every operation on a JobHandle, returning or failing, leaves the id
\* and the other exposed slots showing one state of the Job: the state the
\* handle showed before the call, or the state a fresh refresh() gives at
\* that moment.  A modify() that succeeds leaves the latter; a modify()
\* whose update or re-fetch fails does not leave the new id beside the old
\* values of the other slots.
C14_OnePointInTime ==
    [][ HandleStep =>
          /\ handle' = handle \/ Matches(handle', job')
          /\ (hcall'.op = "modify" /\ hcall'.error = "none") => Matches(handle', job')
      ]_vars

---------------------------------------------------------------------------
(* Atomicity of the gate, checked under Spec. *)

\* no thread is inside add_instance or remove_instance
Quiescent == \A t \in Threads : pc[t] = "idle"

\* the number of calls of op in the history that succeeded
Succeeded(op) ==
    Cardinality({ i \in 1 .. Len(history) : history[i].op = op /\ history[i].ok })

\* C15: no update of instances is lost.  Whenever no call is in progress,
\* instances is the number of add_instance calls that succeeded minus the
\* number of remove_instance calls that succeeded; and when more
\* add_instance calls than max_instances have been made from instances = 0,
\* by threads running concurrently and with no remove_instance, exactly
\* max_instances of them succeeded.
C15_NoLostUpdate ==
    Quiescent =>
        /\ job.instances = Succeeded("add") - Succeeded("remove")
        /\ ( /\ \A i \in 1 .. Len(history) : history[i].op = "add"
             /\ Len(history) > job.max_instances )
           => Succeeded("add") = job.max_instances

\* C15 witness: with max_instances = 1 and instances = 0, two threads have
\* each called add_instance; one was admitted, the other denied, and
\* instances is 1.
C15_Witness ==
    /\ Quiescent
    /\ job.max_instances = 1
    /\ OpsOf(history) = <<"add", "add">>
    /\ outcome[1] = "MaxInstancesReachedError"
    /\ outcome[2] = "ok"
    /\ job.instances = 1

---------------------------------------------------------------------------
(* The gate while the scheduler applies a modify change to max_instances. *)

\* the scheduler applies modify_job(id, store, max_instances=n) to the Job
\* the threads are running
ApplyModify ==
    /\ \E n \in 1 .. MaxInstancesBound :
         /\ n # job.max_instances
         /\ job' = modify_job(job, TRUE, job.id, ("max_instances" :> n)).job
    /\ UNCHANGED <<lock, pc, outcome, history, clock, tpc, now_, run_times, last,
                   snapshot, loaded, handle, present, hcall, read, run_time_>>

NextLower ==
    \/ Next
    \/ ApplyModify

SpecLower == Init /\ [][NextLower]_vars

\* C16: add_instance is denied in every state in which instances <
\* max_instances is false when it makes its test; so after max_instances
\* has been lowered below the number of executions in flight, add_instance
\* fails until remove_instance calls have brought instances below the new
\* max_instances.
C16_DeniedUnlessBelow ==
    [][ \A t \in Threads :
          (pc[t] = "add_if" /\ pc'[t] # "add_if" /\ ~(job.instances < job.max_instances))
             => pc'[t] = "add_raise" ]_vars

---------------------------------------------------------------------------
(* The gate under fair scheduling: a thread inside add_instance or         *)
(* remove_instance keeps being scheduled, and a thread waiting for the     *)
(* lock gets it if the lock is free again and again.                       *)

\* a step of thread t inside a call, other than acquiring the lock
Body(t) ==
    \/ AddIf(t)
    \/ AddLoad(t)
    \/ AddRaise(t)
    \/ AddIncr(t)
    \/ AddExit(t)
    \/ RemAssert(t)
    \/ RemLoad(t)
    \/ RemRaise(t)
    \/ RemDecr(t)
    \/ RemExit(t)

\* thread t takes the lock it is waiting for
Acquire(t) ==
    \/ AddAcquire(t)
    \/ RemAcquire(t)

SpecFair ==
    /\ Init
    /\ [][Next]_vars
    /\ \A t \in Threads : WF_vars(Body(t)) /\ SF_vars(Acquire(t))

\* thread t is inside the with block
InBody(t) == pc[t] \notin {"idle", "add_with", "rem_with"}

\* C18: the lock is released on every exit path of add_instance and
\* remove_instance, the denied add and the failed remove included: it is
\* held only by a thread inside a with block, and under fair scheduling
\* every call that has been entered returns.
C18_LockReleased ==
    /\ [] (\A t \in Threads : lock = t <=> InBody(t))
    /\ [] (Quiescent => lock = NoThread)
    /\ \A t \in Threads : (pc[t] # "idle") ~> (pc[t] = "idle")

\* C18 witness: a failed remove and a denied add have both returned, a
\* later call has taken the lock after each of them, and the lock is
\* free again.
C18_Witness ==
    /\ Quiescent
    /\ lock = NoThread
    /\ OpsOf(history) = <<"remove", "add", "add", "remove">>
    /\ OksOf(history) = <<FALSE, TRUE, FALSE, TRUE>>

---------------------------------------------------------------------------
(* get_run_times step by step: the loop of lines 71-73, one iteration per  *)
(* step, in the scheduler's tick.  Before it runs the Job the caller may   *)
(* call it again with the same now.                                        *)

\* line 73 asking the trigger about run_time itself
next_candidate_same(j, t) == get_next_fire_time(j.trigger, t)

\* line 73: self.trigger.get_next_fire_time(run_time + increment)
next_candidate(j, t) == get_next_fire_time(j.trigger, t + increment)

\* line 71: the condition of the while loop
loop_condition(j, t, now) == run_budget_left(j) /\ run_time_due(t, now)

\* lines 68-69: run_times = [], run_time = self.next_run_time
LoopEnter ==
    /\ tpc = "idle"
    /\ \E now \in clock .. MaxTime : now_' = now
    /\ run_times' = <<>>
    /\ run_time_' = job.next_run_time
    /\ tpc' = "loop"
    /\ UNCHANGED <<job, lock, pc, outcome, history, clock, last, snapshot, loaded,
                   handle, present, hcall, read>>

\* an iteration that moves the Job's own next_run_time along
LoopIter_on_job ==
    /\ tpc = "loop"
    /\ loop_condition(job, run_time_, now_)
    /\ run_times' = Append(run_times, run_time_)
    /\ run_time_' = next_candidate(job, run_time_)
    /\ job' = [job EXCEPT !.next_run_time = next_candidate(job, run_time_)]
    /\ UNCHANGED <<lock, pc, outcome, history, clock, tpc, now_, last, snapshot, loaded,
                   handle, present, hcall, read>>

\* lines 71-73: one iteration of the loop
LoopIter ==
    /\ tpc = "loop"
    /\ loop_condition(job, run_time_, now_)
    /\ run_times' = Append(run_times, run_time_)
    /\ run_time_' = next_candidate(job, run_time_)
    /\ UNCHANGED <<job, lock, pc, outcome, history, clock, tpc, now_, last, snapshot, loaded,
                   handle, present, hcall, read>>

\* lines 71 and 75: the condition is false and run_times is returned
LoopReturn ==
    /\ tpc = "loop"
    /\ ~loop_condition(job, run_time_, now_)
    /\ last' = [ op |-> "get_run_times", now |-> now_, pre |-> job,
                 result |-> None, times |-> run_times, asked |-> <<>>,
                 left |-> run_time_, error |-> "none" ]
    /\ tpc' = "run"
    /\ clock' = now_ + 1
    /\ UNCHANGED <<job, lock, pc, outcome, history, now_, run_times, snapshot, loaded,
                   handle, present, hcall, read, run_time_>>

\* lines 68-69 again: the caller calls get_run_times once more with the
\* same now, the Job being as the last call left it
LoopAgain ==
    /\ tpc = "run"
    /\ last.op = "get_run_times"
    /\ last.pre = job
    /\ run_times' = <<>>
    /\ run_time_' = job.next_run_time
    /\ tpc' = "loop"
    /\ UNCHANGED <<job, lock, pc, outcome, history, clock, now_, last, snapshot, loaded,
                   handle, present, hcall, read>>

NextLoop ==
    \/ LoopEnter
    \/ LoopIter
    \/ LoopReturn
    \/ LoopAgain
    \/ TickRunJob
    \/ TickComputeNextRunTime

SpecLoop == InitTick /\ [][NextLoop]_vars

\* the distance the candidate has yet to go before the loop ends
Measure ==
    IF tpc = "loop" /\ run_time_due(run_time_, now_) THEN now_ - run_time_ + 1 ELSE 0

\* C17: get_run_times terminates, for every now, next_run_time, runs and
\* max_runs, with a trigger that returns None or an instant >= the instant
\* it is asked about: every iteration moves the candidate on by at least
\* the increment or ends it with None, so the distance to now, a natural
\* number, falls with every iteration, each of which adds one instant to
\* the list.
C17_LoopTerminates ==
    /\ [][ (tpc = "loop" /\ tpc' = "loop") =>
              /\ run_time_' = None \/ run_time_' >= run_time_ + increment
              /\ Measure' < Measure
              /\ Len(run_times') = Len(run_times) + 1 ]_vars
    /\ [] (Measure >= 0)
    /\ [] (tpc = "loop" => Len(run_times) + Measure <= now_ + 1)

\* C17 witness: the loop has iterated twice for a Job without max_runs and
\* its candidate has passed now, so that it is about to return.
C17_Witness ==
    /\ tpc = "loop"
    /\ job.max_runs = None
    /\ Len(run_times) = 2
    /\ run_time_ # None
    /\ run_time_ > now_

\* a step of get_run_times: entering, iterating or returning
GetRunTimesStep == tpc = "loop" \/ tpc' = "loop"

\* the step in which compute_next_run_time runs
ComputeStep == tpc = "run" /\ tpc' = "idle"

\* C20: get_run_times(now) leaves next_run_time, runs, instances and every
\* other field of the Job as they were, and called again with the same now
\* on the same Job returns the same sequence; compute_next_run_time changes
\* no field but next_run_time, and next_run_time is changed by nothing
\* else; neither of the two changes runs or instances.
C20_Frame ==
    /\ [][ /\ GetRunTimesStep => job' = job
           /\ ComputeStep => job' = [job EXCEPT !.next_run_time = job'.next_run_time]
           /\ job'.next_run_time # job.next_run_time => ComputeStep
           /\ ( /\ tpc = "loop" /\ tpc' # "loop"
                /\ last.op = "get_run_times" /\ last.now = now_ /\ last.pre = job )
              => last'.times = last.times
           /\ (tpc = "loop" /\ tpc' # "loop")
              => last'.times = get_run_times(job, now_).times ]_vars

\* C20 witness: get_run_times is being called a second time with the same
\* now on the same Job, whose next_run_time is set; it has collected the
\* two instants the first call returned and is about to return.
C20_Witness ==
    /\ tpc = "loop"
    /\ last.op = "get_run_times"
    /\ last.now = now_
    /\ last.pre = job
    /\ job.next_run_time # None
    /\ Len(run_times) = 2
    /\ run_times = last.times
    /\ ~loop_condition(job, run_time_, now_)

=============================================================================
